---- MODULE Spec2Model ----
(***************************************************************************)
(* Model of the pattern matcher of the `macros` workspace                  *)
(* (macros-utils/src/pattern.rs) over the forkable token cursor            *)
(* MacroStream (macros-utils/src/lib.rs) and the token model               *)
(* (macros-utils/src/tokens.rs).                                           *)
(*                                                                         *)
(* match_pattern / match_patterns are pure, mutually recursive functions   *)
(* of (output, patterns, stream); they are written here as recursive       *)
(* operators that return the triple (res, output, stream) the Rust code    *)
(* returns through its result pair and its `&mut MacroStream` argument.    *)
(* The top-level loop of match_patterns is additionally unrolled into the  *)
(* actions of the state machine, one action per iteration.                 *)
(***************************************************************************)
EXTENDS Integers, Sequences, FiniteSets, TLC

\* ------------------------------------------------------------------------
\* Bounds
\* ------------------------------------------------------------------------

\* longest input cursor drawn by Init
MaxLen == 3

\* number of successful repetitions that consume no token after which a
\* repetition loop is reported as not returning
MaxIdle == 2

\* ------------------------------------------------------------------------
\* Token model (tokens.rs)
\* ------------------------------------------------------------------------

\* Span::call_site()
call_site == 0

TokenIdent(name, span) ==
    [variant |-> "Ident", name |-> name, span |-> span]

TokenLiteral(kind, value, suffix, span) ==
    [variant |-> "Literal", kind |-> kind, value |-> value,
     suffix |-> suffix, span |-> span]

TokenPunctuation(value, spacing, span) ==
    [variant |-> "Punctuation", value |-> value, spacing |-> spacing,
     span |-> span]

\* stream is a MacroStream
TokenGroup(delimiter, stream, span) ==
    [variant |-> "Group", delimiter |-> delimiter, stream |-> stream,
     span |-> span]

\* Option<Token>::None
NoToken == [variant |-> "NoToken"]

\* struct MacroStream { stream: VecDeque<Token>, popped: usize }
MacroStream(tokens, popped) == [stream |-> tokens, popped |-> popped]

from_vec(tokens) == MacroStream(tokens, 0)

RECURSIVE TokenEq(_, _)
RECURSIVE TokensEq(_, _)

\* derived PartialEq of MacroStream: both fields, tokens by Token::eq
MacroStreamEq(a, b) ==
    /\ a.popped = b.popped
    /\ TokensEq(a.stream, b.stream)

TokensEq(s, t) ==
    /\ Len(s) = Len(t)
    /\ \A i \in 1..Len(s) : TokenEq(s[i], t[i])

\* impl PartialEq for Token: the span takes no part
TokenEq(a, b) ==
    CASE a.variant = "Ident" /\ b.variant = "Ident" ->
            a.name = b.name
      [] a.variant = "Group" /\ b.variant = "Group" ->
            a.delimiter = b.delimiter /\ MacroStreamEq(a.stream, b.stream)
      [] a.variant = "Literal" /\ b.variant = "Literal" ->
            a.kind = b.kind /\ a.value = b.value /\ a.suffix = b.suffix
      [] a.variant = "Punctuation" /\ b.variant = "Punctuation" ->
            a.value = b.value
      [] OTHER -> FALSE

\* ------------------------------------------------------------------------
\* Token cursor (lib.rs, impl MacroStream)
\* ------------------------------------------------------------------------

is_empty(s) == s.stream = <<>>

peek(s) == IF s.stream = <<>> THEN NoToken ELSE Head(s.stream)

\* pop: the front token, counted once
pop(s) ==
    IF s.stream = <<>>
    THEN [token |-> NoToken, stream |-> s]
    ELSE [token |-> Head(s.stream),
          stream |-> MacroStream(Tail(s.stream), s.popped + 1)]

\* pop_or_err: calls pop (which counts the token) and counts it again in
\* its own map closure
pop_or_err(s) ==
    LET p == pop(s) IN
    IF p.token = NoToken
    THEN [ok |-> FALSE, token |-> NoToken, stream |-> p.stream]
    ELSE [ok |-> TRUE, token |-> p.token,
          stream |-> MacroStream(p.stream.stream, p.stream.popped + 1)]

push_front(s, token) == MacroStream(<<token>> \o s.stream, s.popped)

push_back(s, token) == MacroStream(Append(s.stream, token), s.popped)

\* as fork, but the counter is cloned with the content
fork_keeping_count(s) == MacroStream(s.stream, s.popped)

fork(s) == MacroStream(s.stream, 0)

\* self.unfork(other)
unfork(self, other) == MacroStream(other.stream, 0)

\* span of the front token, or the call site
peek_span(s) == IF s.stream = <<>> THEN call_site ELSE Head(s.stream).span

\* ------------------------------------------------------------------------
\* Capture tree (lib.rs, enum Match)
\* ------------------------------------------------------------------------

MatchOne(token) == [variant |-> "One", token |-> token]

MatchMany(matches) == [variant |-> "Many", matches |-> matches]

MatchNone == [variant |-> "None"]

RECURSIVE MatchTokens(_)
RECURSIVE MatchTokensSeq(_, _)

\* impl From<Match> for MacroStream: the leaves, left to right
MatchTokens(m) ==
    CASE m.variant = "One" -> <<m.token>>
      [] m.variant = "Many" -> MatchTokensSeq(m.matches, 1)
      [] OTHER -> <<>>

MatchTokensSeq(ms, i) ==
    IF i > Len(ms) THEN <<>>
    ELSE MatchTokens(ms[i]) \o MatchTokensSeq(ms, i + 1)

\* ------------------------------------------------------------------------
\* Errors (error.rs) and results
\* ------------------------------------------------------------------------

ErrUnexpectedEndOfInput ==
    [kind |-> "UnexpectedEndOfInput", span |-> call_site]

ErrExpected(expected, found) ==
    [kind |-> "Expected", expected |-> expected, found |-> found,
     span |-> found.span]

ErrExpectedGroup(delimiter, span) ==
    [kind |-> "ExpectedGroup", delimiter |-> delimiter, span |-> span]

ErrInputTooLong(span) == [kind |-> "InputTooLong", span |-> span]

ErrExpectedRepetition(span) == [kind |-> "ExpectedRepetition", span |-> span]

ErrNoMatchingChoice(span) == [kind |-> "NoMatchingChoice", span |-> span]

ErrValidatorFailed(msg, span) ==
    [kind |-> "ValidatorFailed", msg |-> msg, span |-> span]

\* MacrosError::User, as returned by a sink that rejects a value
ErrUser(k) == [kind |-> "User", name |-> k, span |-> call_site]

Ok(m) == [variant |-> "Ok", m |-> m]

Err(e) == [variant |-> "Err", e |-> e]

\* panic!(): unwinds through every caller
Panic == [variant |-> "Panic"]

\* the call does not return
Diverge == [variant |-> "Diverge"]

IsOk(res) == res.variant = "Ok"

IsErr(res) == res.variant = "Err"

\* neither Ok nor Err: no value reaches the caller
Aborts(res) == res.variant \in {"Panic", "Diverge"}

\* ------------------------------------------------------------------------
\* Pattern AST (pattern.rs, enum Pattern)
\* ------------------------------------------------------------------------

PatternAny == [variant |-> "Any"]

PatternToken(token) == [variant |-> "Token", token |-> token]

PatternGroup(delimiter, patterns) ==
    [variant |-> "Group", delimiter |-> delimiter, patterns |-> patterns]

PatternOptional(patterns) == [variant |-> "Optional", patterns |-> patterns]

PatternZeroOrMore(patterns, greedy) ==
    [variant |-> "ZeroOrMore", patterns |-> patterns, greedy |-> greedy]

PatternOneOrMore(patterns, greedy) ==
    [variant |-> "OneOrMore", patterns |-> patterns, greedy |-> greedy]

PatternChoice(choices) == [variant |-> "Choice", choices |-> choices]

PatternParameter(patterns, name) ==
    [variant |-> "Parameter", patterns |-> patterns, name |-> name]

\* f is the name of the predicate, or "None" for Validator(_, None)
PatternValidator(f) == [variant |-> "Validator", f |-> f]

\* Option<&Pattern>::None
NoPattern == [variant |-> "NoPattern"]

\* patterns.get(i) with a 1-based index
Get(patterns, i) ==
    IF i \in 1..Len(patterns) THEN patterns[i] ELSE NoPattern

\* ------------------------------------------------------------------------
\* Output sink (lib.rs, trait ParserOutput) and validator predicates
\* ------------------------------------------------------------------------

\* The sink T.  sets: the captures the sink accepted, in call order (the
\* generated struct assigns or pushes each of them to a field).  calls: the
\* trace of every set_match and predicate call made on this value.
NewOutput == [sets |-> <<>>, calls |-> <<>>]

\* <Match as TryInto<(Type,)>>::try_into of the generated set_match: a
\* parameter of type Match takes every value; the parameter "num" stands for
\* a typed parameter whose Parse accepts exactly one literal token
SinkAccepts(k, m) ==
    k = "num" => /\ Len(MatchTokens(m)) = 1
                 /\ MatchTokens(m)[1].variant = "Literal"

\* ParserOutput::set_match(&mut self, k, m)
set_match(o, k, m) ==
    LET accepted == SinkAccepts(k, m)
        call == [op |-> "set_match", k |-> k, m |-> m, ok |-> accepted]
    IN [ok |-> accepted,
        e |-> ErrUser(k),
        output |-> [sets |-> IF accepted
                             THEN Append(o.sets, [k |-> k, m |-> m])
                             ELSE o.sets,
                    calls |-> Append(o.calls, call)]]

\* the verdict of predicate f on (output, &m)
ValidatorAccepts(f, o, m) ==
    CASE f = "accept" -> TRUE
      [] f = "reject" -> FALSE
      [] f = "is_literal" ->
            /\ Len(MatchTokens(m)) = 1
            /\ MatchTokens(m)[1].variant = "Literal"
      [] f = "require_set" -> o.sets # <<>>
      [] OTHER -> TRUE

\* f(output, &m) -> (Result<(), String>, output)
CallValidator(f, o, m) ==
    LET accepted == ValidatorAccepts(f, o, m)
        call == [op |-> "validator", k |-> f, m |-> m, ok |-> accepted]
    IN [ok |-> accepted,
        msg |-> f,
        output |-> [sets |-> o.sets, calls |-> Append(o.calls, call)]]

\* ------------------------------------------------------------------------
\* Matching (pattern.rs, Pattern::match_pattern / Pattern::match_patterns)
\* ------------------------------------------------------------------------

\* what a call hands back: the result, the output, and the state of the
\* caller's `&mut MacroStream`; early marks a `return` statement inside the
\* variant's arm, which leaves match_pattern before its final `match`
Ret(res, output, stream) ==
    [res |-> res, output |-> output, stream |-> stream, early |-> FALSE]

EarlyRet(res, output, stream) ==
    [res |-> res, output |-> output, stream |-> stream, early |-> TRUE]

RECURSIVE match_pattern(_, _, _, _, _)
RECURSIVE match_patterns_from(_, _, _, _, _)
RECURSIVE match_choices(_, _, _, _)
RECURSIVE one_or_more_loop(_, _, _, _, _, _, _)
RECURSIVE zero_or_more_loop(_, _, _, _, _, _, _)

\* Pattern::match_patterns
match_patterns(output, patterns, stream) ==
    match_patterns_from(output, patterns, 1, <<>>, stream)

\* the accumulation of one successful sub-match m into `matches`
\* as push_match, but a Many result is dropped instead of spliced
push_match_losing_many(matches, m) ==
    CASE m.variant = "One" -> Append(matches, m)
      [] OTHER -> matches

\* as push_match, but a Many result is pushed as one element
push_match_nesting(matches, m) ==
    CASE m.variant \in {"One", "Many"} -> Append(matches, m)
      [] OTHER -> matches

\* as push_match, but a sub-match is put in front of the earlier ones
push_match_prepending(matches, m) ==
    CASE m.variant = "One" -> <<m>> \o matches
      [] m.variant = "Many" -> m.matches \o matches
      [] OTHER -> matches

push_match(matches, m) ==
    CASE m.variant = "One" -> Append(matches, m)
      [] m.variant = "Many" -> matches \o m.matches
      [] OTHER -> matches

\* the `for (i, pattern)` loop of match_patterns, from index i on, with the
\* accumulator `matches`
match_patterns_from(output, patterns, i, matches, stream) ==
    IF i > Len(patterns)
    THEN Ret(Ok(MatchMany(matches)), output, stream)
    ELSE IF patterns[i].variant = "Validator"
    THEN match_patterns_from(output, patterns, i + 1, matches, stream)
    ELSE LET r == match_pattern(patterns[i], output, Get(patterns, i + 1),
                                Get(patterns, i + 2), stream)
         IN IF IsOk(r.res)
            THEN match_patterns_from(r.output, patterns, i + 1,
                                     push_match(matches, r.res.m), r.stream)
            ELSE Ret(r.res, r.output, r.stream)

\* as match_any, but the front token is read and left on the cursor
match_any_peeking(output, stream) ==
    IF is_empty(stream)
    THEN Ret(Err(ErrUnexpectedEndOfInput), output, stream)
    ELSE Ret(Ok(MatchOne(peek(stream))), output, stream)

\* Self::Any
match_any(output, stream) ==
    LET p == pop_or_err(stream) IN
    IF p.ok
    THEN Ret(Ok(MatchOne(p.token)), output, p.stream)
    ELSE Ret(Err(ErrUnexpectedEndOfInput), output, p.stream)

\* match_token returning the grammar's token in place of the popped one
match_token_grammar_token(token, output, stream) ==
    LET p == pop_or_err(stream) IN
    IF ~p.ok
    THEN Ret(Err(ErrUnexpectedEndOfInput), output, p.stream)
    ELSE IF TokenEq(p.token, token)
    THEN Ret(Ok(MatchOne(token)), output, p.stream)
    ELSE Ret(Err(ErrExpected(token, p.token)), output, p.stream)

\* Self::Token(token)
match_token(token, output, stream) ==
    LET p == pop_or_err(stream) IN
    IF ~p.ok
    THEN Ret(Err(ErrUnexpectedEndOfInput), output, p.stream)
    ELSE IF TokenEq(p.token, token)
    THEN Ret(Ok(MatchOne(p.token)), output, p.stream)
    ELSE Ret(Err(ErrExpected(token, p.token)), output, p.stream)

\* match_choices going on after a success and committing the last
\* alternative that succeeds
match_choices_last(choices, i, output, stream) ==
    IF i > Len(choices)
    THEN Ret(Err(ErrNoMatchingChoice(peek_span(stream))), output, stream)
    ELSE LET r == match_patterns(output, choices[i], fork(stream)) IN
         IF IsErr(r.res)
         THEN match_choices(choices, i + 1, r.output, stream)
         ELSE IF IsOk(r.res)
         THEN LET later == match_choices(choices, i + 1, output, stream) IN
              IF IsOk(later.res)
              THEN later
              ELSE EarlyRet(r.res, r.output, unfork(stream, r.stream))
         ELSE EarlyRet(r.res, r.output, stream)

\* as match_choices, but an alternative is tried on the cursor itself and
\* the next one goes on where the failed one stopped
match_choices_consuming(choices, i, output, stream) ==
    IF i > Len(choices)
    THEN Ret(Err(ErrNoMatchingChoice(peek_span(stream))), output, stream)
    ELSE LET r == match_patterns(output, choices[i], stream) IN
         IF IsErr(r.res)
         THEN match_choices(choices, i + 1, r.output, r.stream)
         ELSE EarlyRet(r.res, r.output, r.stream)

\* Self::Choice(choices): the 'choice loop from alternative i on
match_choices(choices, i, output, stream) ==
    IF i > Len(choices)
    THEN Ret(Err(ErrNoMatchingChoice(peek_span(stream))), output, stream)
    ELSE LET r == match_patterns(output, choices[i], fork(stream)) IN
         IF IsErr(r.res)
         THEN match_choices(choices, i + 1, r.output, stream)
         ELSE IF IsOk(r.res)
         THEN EarlyRet(r.res, r.output, unfork(stream, r.stream))
         ELSE EarlyRet(r.res, r.output, stream)

\* Self::Group(delimiter, patterns)
match_group(delimiter, patterns, output, stream) ==
    LET p == pop_or_err(stream) IN
    IF ~p.ok
    THEN EarlyRet(Err(ErrUnexpectedEndOfInput), output, p.stream)
    ELSE IF p.token.variant = "Group" /\ p.token.delimiter = delimiter
    THEN LET r == match_patterns(output, patterns, fork(p.token.stream)) IN
         IF Aborts(r.res)
         THEN EarlyRet(r.res, r.output, p.stream)
         ELSE IF ~is_empty(r.stream)
         THEN EarlyRet(Err(ErrInputTooLong(peek_span(p.stream))), r.output,
                       p.stream)
         ELSE EarlyRet(r.res, r.output, unfork(p.stream, r.stream))
    ELSE Ret(Err(ErrExpectedGroup(delimiter, p.token.span)), output, p.stream)

\* the value of a repetition whose `loop` was left by `break`
RepetitionResult(matches, min, output, stream) ==
    Ret(IF matches = <<>>
        THEN IF min = 1
             THEN Err(ErrExpectedRepetition(peek_span(stream)))
             ELSE Ok(MatchNone)
        ELSE Ok(MatchMany(matches)),
        output, stream)

\* `Some(next) if !greedy && !matches.is_empty()`
one_or_more_lookahead(match_next, greedy, matches) ==
    match_next # NoPattern /\ ~greedy /\ matches # <<>>

\* the lookahead guard taken also by a greedy repetition
zero_or_more_lookahead_always(match_next, greedy) ==
    match_next # NoPattern

\* the lookahead guard taken by a non-greedy repetition also when no
\* pattern follows
zero_or_more_lookahead_unguarded(match_next, greedy) == ~greedy

\* `Some(next) if !greedy`
zero_or_more_lookahead(match_next, greedy) ==
    match_next # NoPattern /\ ~greedy

\* Self::OneOrMore(patterns, greedy): the `loop`, entered with `matches`;
\* idle counts the repetitions so far that consumed no token
one_or_more_loop(patterns, greedy, match_next, output, stream, matches, idle) ==
    IF idle > MaxIdle
    THEN Ret(Diverge, output, stream)
    ELSE
    LET r == match_patterns(output, patterns, fork(stream)) IN
    IF Aborts(r.res)
    THEN Ret(r.res, r.output, stream)
    ELSE IF IsErr(r.res)
    THEN IF matches = <<>>
         THEN EarlyRet(r.res, r.output, stream)
         ELSE RepetitionResult(matches, 1, r.output, stream)
    ELSE
    LET stream1 == unfork(stream, r.stream)
        matches1 == Append(matches, r.res.m)
        idle1 == IF Len(stream1.stream) = Len(stream.stream)
                 THEN idle + 1 ELSE idle
    IN IF one_or_more_lookahead(match_next, greedy, matches1)
       THEN LET l == match_pattern(match_next, r.output, NoPattern,
                                   NoPattern, fork(stream1))
            IN IF Aborts(l.res)
               THEN Ret(l.res, l.output, stream1)
               ELSE IF IsOk(l.res)
               THEN RepetitionResult(matches1, 1, l.output, stream1)
               ELSE one_or_more_loop(patterns, greedy, match_next, l.output,
                                     stream1, matches1, idle1)
       ELSE one_or_more_loop(patterns, greedy, match_next, r.output,
                             stream1, matches1, idle1)

\* Self::ZeroOrMore(patterns, greedy): the `loop`, entered with `matches`
zero_or_more_loop(patterns, greedy, match_next, output, stream, matches, idle) ==
    IF idle > MaxIdle
    THEN Ret(Diverge, output, stream)
    ELSE
    LET r == match_patterns(output, patterns, fork(stream)) IN
    IF Aborts(r.res)
    THEN Ret(r.res, r.output, stream)
    ELSE IF IsErr(r.res)
    THEN RepetitionResult(matches, 0, r.output, stream)
    ELSE
    LET stream1 == unfork(stream, r.stream)
        matches1 == Append(matches, r.res.m)
        idle1 == IF Len(stream1.stream) = Len(stream.stream)
                 THEN idle + 1 ELSE idle
    IN IF zero_or_more_lookahead(match_next, greedy)
       THEN LET l == match_pattern(match_next, r.output, NoPattern,
                                   NoPattern, fork(stream1))
            IN IF Aborts(l.res)
               THEN Ret(l.res, l.output, stream1)
               ELSE IF IsOk(l.res)
               THEN RepetitionResult(matches1, 0, l.output, stream1)
               ELSE zero_or_more_loop(patterns, greedy, match_next, l.output,
                                      stream1, matches1, idle1)
       ELSE zero_or_more_loop(patterns, greedy, match_next, r.output,
                              stream1, matches1, idle1)

\* match_optional passing a failure of the body on to its caller
match_optional_failing(patterns, output, stream) ==
    LET r == match_patterns(output, patterns, fork(stream)) IN
    IF IsOk(r.res)
    THEN Ret(r.res, r.output, unfork(stream, r.stream))
    ELSE Ret(r.res, r.output, stream)

\* match_optional passing a ValidatorFailed of the body on to its caller
match_optional_validator_fatal(patterns, output, stream) ==
    LET r == match_patterns(output, patterns, fork(stream)) IN
    IF IsOk(r.res)
    THEN Ret(r.res, r.output, unfork(stream, r.stream))
    ELSE IF IsErr(r.res) /\ r.res.e.kind # "ValidatorFailed"
    THEN Ret(Ok(MatchNone), r.output, stream)
    ELSE Ret(r.res, r.output, stream)

\* as match_optional, but a failed body leaves the output as it was before
\* the attempt
match_optional_restoring(patterns, output, stream) ==
    LET r == match_patterns(output, patterns, fork(stream)) IN
    IF IsOk(r.res)
    THEN Ret(r.res, r.output, unfork(stream, r.stream))
    ELSE IF IsErr(r.res)
    THEN Ret(Ok(MatchNone), output, stream)
    ELSE Ret(r.res, r.output, stream)

\* Self::Optional(patterns)
match_optional(patterns, output, stream) ==
    LET r == match_patterns(output, patterns, fork(stream)) IN
    IF IsOk(r.res)
    THEN Ret(r.res, r.output, unfork(stream, r.stream))
    ELSE IF IsErr(r.res)
    THEN Ret(Ok(MatchNone), r.output, stream)
    ELSE Ret(r.res, r.output, stream)

\* Self::Parameter(patterns, name, _)
\* as match_parameter, but a match of a single token is handed to the sink
\* as that token's One
match_parameter_unwrapping(patterns, name, output, stream) ==
    LET r == match_patterns(output, patterns, fork(stream)) IN
    IF IsOk(r.res)
    THEN LET m == IF r.res.m.variant = "Many" /\ Len(r.res.m.matches) = 1
                  THEN r.res.m.matches[1]
                  ELSE r.res.m
             s == set_match(r.output, name, m) IN
         IF s.ok
         THEN Ret(r.res, s.output, unfork(stream, r.stream))
         ELSE Ret(Err(s.e), s.output, unfork(stream, r.stream))
    ELSE Ret(r.res, r.output, stream)

\* as match_parameter, but the verdict of the sink is ignored
match_parameter_ignoring_sink(patterns, name, output, stream) ==
    LET r == match_patterns(output, patterns, fork(stream)) IN
    IF IsOk(r.res)
    THEN Ret(r.res, set_match(r.output, name, r.res.m).output,
             unfork(stream, r.stream))
    ELSE Ret(r.res, r.output, stream)

match_parameter(patterns, name, output, stream) ==
    LET r == match_patterns(output, patterns, fork(stream)) IN
    IF IsOk(r.res)
    THEN LET s == set_match(r.output, name, r.res.m) IN
         IF s.ok
         THEN Ret(r.res, s.output, unfork(stream, r.stream))
         ELSE Ret(Err(s.e), s.output, unfork(stream, r.stream))
    ELSE Ret(r.res, r.output, stream)

\* the `let res = match self { ... }` of match_pattern
match_variant(self, output, match_next, stream) ==
    CASE self.variant = "Any" -> match_any(output, stream)
      [] self.variant = "Choice" ->
            match_choices(self.choices, 1, output, stream)
      [] self.variant = "Group" ->
            match_group(self.delimiter, self.patterns, output, stream)
      [] self.variant = "OneOrMore" ->
            one_or_more_loop(self.patterns, self.greedy, match_next, output,
                             stream, <<>>, 0)
      [] self.variant = "ZeroOrMore" ->
            zero_or_more_loop(self.patterns, self.greedy, match_next, output,
                              stream, <<>>, 0)
      [] self.variant = "Optional" ->
            match_optional(self.patterns, output, stream)
      [] self.variant = "Token" -> match_token(self.token, output, stream)
      [] self.variant = "Parameter" ->
            match_parameter(self.patterns, self.name, output, stream)
      [] OTHER -> Ret(Panic, output, stream)

\* the final `match (next, res)` of match_pattern: the predicate of a
\* Validator that follows is applied to a successful match
validator_hook(next, r) ==
    IF next.variant = "Validator" /\ next.f # "None" /\ IsOk(r.res)
    THEN LET v == CallValidator(next.f, r.output, r.res.m) IN
         IF v.ok
         THEN Ret(r.res, v.output, r.stream)
         ELSE Ret(Err(ErrValidatorFailed(v.msg, peek_span(r.stream))),
                  v.output, r.stream)
    ELSE Ret(r.res, r.output, r.stream)

\* Pattern::match_pattern(&self, output, next, next2, stream)
match_pattern(self, output, next, next2, stream) ==
    LET match_next == IF next.variant = "Validator" THEN next2 ELSE next
        r == match_variant(self, output, match_next, stream)
    IN IF r.early
       THEN Ret(r.res, r.output, r.stream)
       ELSE validator_hook(next, r)

\* ------------------------------------------------------------------------
\* Grammar construction (pattern.rs, stream_to_patterns / Pattern::parse)
\* and its expansion into the parser's pattern list (repr.rs)
\* ------------------------------------------------------------------------

ErrInvalidValidatorPosition(span) ==
    [kind |-> "InvalidValidatorPosition", span |-> span]

\* abort!(): the expansion of the macro stops with a diagnostic
Abort == [variant |-> "Abort"]

\* Pattern::Validator(Some(stream), None), as Pattern::parse builds it
PatternValidatorSource(stream) ==
    [variant |-> "Validator", f |-> "None", stream |-> stream]

\* Some(Token::Punctuation { value, spacing, .. })
IsPunctuation(token, value, spacing) ==
    /\ token.variant = "Punctuation"
    /\ token.value = value
    /\ token.spacing = spacing

\* peek_at(i), with the 0-based index of the code
peek_at(s, i) == IF i + 1 <= Len(s.stream) THEN s.stream[i + 1] ELSE NoToken

\* what a construction step hands back: the result and the state of its
\* `&mut MacroStream`
Built(res, stream) == [res |-> res, stream |-> stream]

RECURSIVE Pattern_parse(_)
RECURSIVE stream_to_patterns_from(_, _, _)
RECURSIVE parse_parameter_body(_, _)
RECURSIVE parse_choices(_, _, _)

\* the `while !stream.is_empty()` loop of stream_to_patterns, with the
\* accumulator `patterns` and the previous pattern `prev`
stream_to_patterns_from(stream, patterns, prev) ==
    IF is_empty(stream)
    THEN Built(Ok(patterns), stream)
    ELSE LET c == Pattern_parse(stream) IN
         IF ~IsOk(c.res)
         THEN c
         ELSE IF /\ c.res.m.variant = "Validator"
                 /\ prev.variant \in {"Validator", "NoPattern"}
         THEN Built(Err(ErrInvalidValidatorPosition(peek_span(c.stream))),
                    c.stream)
         ELSE stream_to_patterns_from(c.stream, Append(patterns, c.res.m),
                                      c.res.m)

stream_to_patterns(stream) == stream_to_patterns_from(stream, <<>>, NoPattern)

\* Ok(make(patterns)) when the sequence was built, its failure otherwise
Wrapped(r, pattern) == IF IsOk(r.res) THEN Ok(pattern) ELSE r.res

\* the second argument of ZeroOrMore / OneOrMore for a Joint ending: the
\* ending is doubled
is_greedy(input, value) == IsPunctuation(peek_at(input, 1), value, "Alone")

\* the `while` loop of the '@' arm: patterns up to the colon, each built by
\* Pattern::parse
parse_parameter_body(stream, patterns) ==
    IF is_empty(stream)
    THEN Built(Ok(patterns), stream)
    ELSE IF IsPunctuation(peek(stream), ":", "Alone")
    THEN Built(Ok(patterns), pop(stream).stream)
    ELSE LET c == Pattern_parse(stream) IN
         IF ~IsOk(c.res)
         THEN c
         ELSE parse_parameter_body(c.stream, Append(patterns, c.res.m))

\* the '@' arm after `stream.push_front(token)`
parse_parameter(stream) ==
    LET body == parse_parameter_body(stream, <<>>) IN
    IF ~IsOk(body.res) THEN body.res
    ELSE IF is_empty(body.stream) \/ body.res.m = <<>> THEN Abort
    ELSE LET name == pop_or_err(body.stream)
             type == pop(name.stream)
         IN IF name.token.variant # "Ident" THEN Abort
            ELSE IF type.token = NoToken
            THEN Ok(PatternParameter(body.res.m, name.token.name))
            ELSE IF /\ IsPunctuation(type.token, ":", "Alone")
                    /\ ~is_empty(type.stream)
            THEN Ok(PatternParameter(body.res.m, name.token.name))
            ELSE Abort

\* the `while` loop of the '&' arm: alternatives split at '|', each pattern
\* built by Pattern::parse
parse_choices(stream, patterns, current) ==
    IF is_empty(stream)
    THEN Built(Ok(PatternChoice(IF current # <<>>
                                THEN Append(patterns, current)
                                ELSE patterns)),
               stream)
    ELSE IF IsPunctuation(peek(stream), "|", "Alone")
    THEN parse_choices(pop(stream).stream,
                       IF current # <<>> THEN Append(patterns, current)
                       ELSE patterns,
                       <<>>)
    ELSE LET c == Pattern_parse(stream) IN
         IF ~IsOk(c.res)
         THEN c
         ELSE parse_choices(c.stream, patterns, Append(current, c.res.m))

\* the arm of Pattern::parse for a brace group whose content is `stream`,
\* taken off the front of `input`
parse_braces(stream, input) ==
    LET t == pop_or_err(stream)
        ending == peek(input)
    IN
    IF /\ t.ok
       /\ t.token.variant = "Group"
       /\ t.token.delimiter = "Brace"
       /\ is_empty(t.stream)
    THEN LET r == stream_to_patterns(t.token.stream)
         IN Built(Wrapped(r, PatternGroup("Brace", r.res.m)), input)
    ELSE IF t.ok
    THEN LET body == push_front(t.stream, t.token)
             seq == stream_to_patterns(body)
             joint == \/ IsPunctuation(ending, "*", "Joint")
                      \/ IsPunctuation(ending, "+", "Joint")
             res ==
                CASE IsPunctuation(ending, "?", "Alone") ->
                        Wrapped(seq, PatternOptional(seq.res.m))
                  [] IsPunctuation(ending, "*", "Alone") ->
                        Wrapped(seq, PatternZeroOrMore(seq.res.m, FALSE))
                  [] IsPunctuation(ending, "*", "Joint") ->
                        Wrapped(seq, PatternZeroOrMore(seq.res.m,
                                                       is_greedy(input, "*")))
                  [] IsPunctuation(ending, "+", "Alone") ->
                        Wrapped(seq, PatternOneOrMore(seq.res.m, FALSE))
                  [] IsPunctuation(ending, "+", "Joint") ->
                        Wrapped(seq, PatternOneOrMore(seq.res.m,
                                                      is_greedy(input, "+")))
                  [] IsPunctuation(ending, "@", "Alone") ->
                        parse_parameter(body)
                  [] IsPunctuation(ending, "&", "Alone") ->
                        parse_choices(body, <<>>, <<>>).res
                  [] IsPunctuation(ending, "$", "Alone") -> Ok(PatternAny)
                  [] IsPunctuation(ending, "=", "Alone") ->
                        Ok(PatternValidatorSource(body))
                  [] OTHER -> Abort
             \* a doubled ending is popped inside the arm, the ending
             \* itself by the `input.pop()` after the match
             popped == IF joint /\ is_greedy(input, ending.value)
                       THEN pop(pop(input).stream).stream
                       ELSE pop(input).stream
         IN Built(res, IF IsOk(res) THEN popped ELSE input)
    ELSE IF IsPunctuation(ending, "$", "Alone")
    THEN Built(Ok(PatternAny), pop(input).stream)
    ELSE Built(Abort, input)

\* the arm of Pattern::parse for '~': the next token, which must be one of
\* the special endings, is matched exactly
parse_escape(input) ==
    LET next == pop_or_err(input) IN
    IF ~next.ok
    THEN Built(Err(ErrUnexpectedEndOfInput), next.stream)
    ELSE IF /\ next.token.variant = "Punctuation"
            /\ next.token.value \in {"?", "*", "+", "=", "~", "@", "&", "$"}
    THEN Built(Ok(PatternToken(next.token)), next.stream)
    ELSE Built(Abort, next.stream)

\* impl Parse for Pattern
Pattern_parse(input) ==
    LET p == pop_or_err(input) IN
    IF ~p.ok
    THEN Built(Err(ErrUnexpectedEndOfInput), p.stream)
    ELSE CASE p.token.variant = "Group" /\ p.token.delimiter = "Brace" ->
                parse_braces(p.token.stream, p.stream)
           [] p.token.variant = "Punctuation" /\ p.token.value = "~" ->
                parse_escape(p.stream)
           [] p.token.variant = "Group" /\ p.token.delimiter # "Brace" ->
                LET r == stream_to_patterns(p.token.stream)
                IN Built(Wrapped(r, PatternGroup(p.token.delimiter, r.res.m)),
                         p.stream)
           [] OTHER -> Built(Ok(PatternToken(p.token)), p.stream)

\* the predicate a validator's tokens name: they are interpolated into the
\* generated code as the function of the node
predicate_of(stream) ==
    IF ~is_empty(stream) /\ peek(stream).variant = "Ident"
    THEN peek(stream).name
    ELSE "None"

RECURSIVE repr_token(_)
RECURSIVE repr_pattern(_)

\* impl Repr for MacroStream: MacroStream::from_vec(vec![...])
repr_stream(s) == from_vec([i \in 1..Len(s.stream) |-> repr_token(s.stream[i])])

\* impl Repr for Token: the token rebuilt with the call-site span
repr_token(t) ==
    CASE t.variant = "Group" ->
            TokenGroup(t.delimiter, repr_stream(t.stream), call_site)
      [] t.variant = "Ident" -> TokenIdent(t.name, call_site)
      [] t.variant = "Literal" ->
            TokenLiteral(t.kind, t.value, t.suffix, call_site)
      [] OTHER -> TokenPunctuation(t.value, t.spacing, call_site)

\* impl Repr for Vec<Pattern>
repr_patterns(ps) == [i \in 1..Len(ps) |-> repr_pattern(ps[i])]

\* impl Repr for Pattern: the node as the generated pattern list holds it
repr_pattern(p) ==
    CASE p.variant = "Token" -> PatternToken(repr_token(p.token))
      [] p.variant = "Group" ->
            PatternGroup(p.delimiter, repr_patterns(p.patterns))
      [] p.variant = "Optional" -> PatternOptional(repr_patterns(p.patterns))
      [] p.variant = "ZeroOrMore" ->
            PatternZeroOrMore(repr_patterns(p.patterns), p.greedy)
      [] p.variant = "OneOrMore" ->
            PatternOneOrMore(repr_patterns(p.patterns), p.greedy)
      [] p.variant = "Parameter" ->
            PatternParameter(repr_patterns(p.patterns), p.name)
      [] p.variant = "Choice" ->
            PatternChoice([i \in 1..Len(p.choices) |->
                                repr_patterns(p.choices[i])])
      [] p.variant = "Validator" -> PatternValidator(predicate_of(p.stream))
      [] OTHER -> PatternAny

\* ------------------------------------------------------------------------
\* Inputs: the tokens, cursors and grammars drawn by Init
\* ------------------------------------------------------------------------

\* sequences over S of length at most n
SeqsUpTo(S, n) == UNION {[1..k -> S] : k \in 0..n}

\* input tokens carry their own spans
X == TokenIdent("x", 1)

L == TokenLiteral("Integer", "42", "", 2)

FlatTokens == {X, L}

GroupTokens ==
    {TokenGroup("Parenthesis", from_vec(s), 3) :
        s \in {<<>>, <<X>>, <<L>>, <<X, L>>}}
    \cup {TokenGroup("Bracket", from_vec(<<X>>), 3)}

\* a cursor of at most MaxLen tokens, with at most one group, at its front
Inputs ==
    {from_vec(s) : s \in SeqsUpTo(FlatTokens, MaxLen)}
    \cup {from_vec(<<g>> \o s) :
            g \in GroupTokens, s \in SeqsUpTo(FlatTokens, MaxLen - 1)}

\* tokens written in a grammar carry the call-site span
PX == PatternToken(TokenIdent("x", call_site))

PL == PatternToken(TokenLiteral("Integer", "42", "", call_site))

PN == PatternParameter(<<PatternAny>>, "n")

Leaves == {PatternAny, PX, PL}

\* bodies of the nested nodes
Bodies ==
    { <<>>,
      <<PatternAny>>,
      <<PX>>,
      <<PX, PatternAny>>,
      <<PatternAny, PatternValidator("is_literal")>>,
      <<PN>>,
      <<PN, PatternValidator("is_literal")>>,
      <<PN, PX>>,
      <<PX, PatternParameter(<<PatternAny>>, "rest")>>,
      <<PatternOptional(<<PatternAny, PatternValidator("require_set")>>),
        PX>> }

\* bodies of the alternatives of a Choice
ChoiceBodies ==
    { <<PatternAny>>,
      <<PX>>,
      <<PX, PatternAny>>,
      <<PN, PatternValidator("is_literal")>>,
      <<PN, PX>> }

Nodes ==
    Leaves
    \cup {PatternOptional(b) : b \in Bodies}
    \cup {PatternZeroOrMore(b, g) : b \in Bodies, g \in BOOLEAN}
    \cup {PatternOneOrMore(b, g) : b \in Bodies, g \in BOOLEAN}
    \cup {PatternParameter(b, "p") : b \in Bodies}
    \cup {PatternParameter(b, "num") : b \in Bodies}
    \cup {PatternGroup("Parenthesis", b) : b \in Bodies}
    \cup {PatternChoice(<<>>)}
    \cup {PatternChoice(<<a>>) : a \in ChoiceBodies}
    \cup {PatternChoice(<<a, b>>) : a \in ChoiceBodies, b \in ChoiceBodies}

\* what follows the first node of a grammar
Followers ==
    { <<>>,
      <<PX>>,
      <<PL>>,
      <<PatternAny>>,
      <<PatternParameter(<<PN, PL>>, "q")>>,
      <<PatternValidator("accept")>>,
      <<PatternValidator("reject")>>,
      <<PatternValidator("is_literal")>>,
      <<PatternValidator("reject"), PX>>,
      <<PatternValidator("accept"), PatternAny>> }

Grammars == {<<n>> \o f : n \in Nodes, f \in Followers}

\* tokens of a grammar written in the pattern syntax of the parser! macro
Braces(tokens) == TokenGroup("Brace", from_vec(tokens), 4)

Punct(value) == TokenPunctuation(value, "Alone", 4)

JointPunct(value) == TokenPunctuation(value, "Joint", 4)

\* x
TX == <<TokenIdent("x", 4)>>

\* 42
TL == <<TokenLiteral("Integer", "42", "", 4)>>

\* {}$
TAny == <<Braces(<<>>), Punct("$")>>

\* {f}=
TVal(f) == <<Braces(<<TokenIdent(f, 4)>>), Punct("=")>>

\* {b}?
TOpt(b) == <<Braces(b), Punct("?")>>

\* {b}* and {b}**
TZom(b, greedy) ==
    IF greedy THEN <<Braces(b), JointPunct("*"), Punct("*")>>
    ELSE <<Braces(b), Punct("*")>>

\* {b}+ and {b}++
TOom(b, greedy) ==
    IF greedy THEN <<Braces(b), JointPunct("+"), Punct("+")>>
    ELSE <<Braces(b), Punct("+")>>

\* {b : name}@
TPar(b, name) ==
    <<Braces(b \o <<Punct(":"), TokenIdent(name, 4)>>), Punct("@")>>

\* {a | b}&
TCho(a, b) == <<Braces(a \o <<Punct("|")>> \o b), Punct("&")>>

\* (b)
TGrp(b) == <<TokenGroup("Parenthesis", from_vec(b), 4)>>

\* {{b}}
TEsc(b) == <<Braces(<<Braces(b)>>)>>

\* what is written inside the braces of a nested node
TextBodies ==
    { TX,
      TAny,
      TAny \o TVal("is_literal"),
      TVal("accept") \o TX,
      TX \o TVal("accept") \o TVal("accept"),
      TZom(TAny, FALSE) \o TVal("accept") \o TVal("accept"),
      TPar(TAny, "n") \o TX }

TextNodes ==
    {TX, TL, TAny, TOpt(<<>>), <<Punct("~"), Punct("$")>>}
    \cup {TOpt(b) : b \in TextBodies}
    \cup {TZom(b, g) : b \in TextBodies, g \in BOOLEAN}
    \cup {TOom(b, g) : b \in TextBodies, g \in BOOLEAN}
    \cup {TPar(b, "p") : b \in TextBodies}
    \cup {TCho(b, TX) : b \in TextBodies}
    \cup {TGrp(b) : b \in TextBodies}
    \cup {TEsc(b) : b \in TextBodies}

TextFollowers ==
    { <<>>,
      TX,
      TAny,
      TVal("accept"),
      TVal("reject"),
      TVal("accept") \o TVal("accept"),
      TVal("accept") \o TL,
      TPar(TAny, "q"),
      TPar(TAny, "param") }

\* the grammars handed to the parser! macro
Texts ==
    {from_vec(TVal("accept"))}
    \cup {from_vec(n \o f) : n \in TextNodes, f \in TextFollowers}

\* the cursors the generated parsers are run on
FlatInputs == {from_vec(s) : s \in SeqsUpTo(FlatTokens, MaxLen)}

\* cursors as a caller holds them: some tokens already taken off
Cursors ==
    {MacroStream(s, p) : s \in SeqsUpTo(FlatTokens, MaxLen), p \in {0, 1, 2}}

\* a group whose inner cursor had its first token taken off
PoppedGroup(delimiter, tokens) ==
    TokenGroup(delimiter, pop(from_vec(tokens)).stream, 3)

\* the tokens compared with one another
ComparedTokens ==
    { X, L,
      TokenIdent("x", 2),
      TokenIdent("y", 1),
      TokenLiteral("Integer", "42", "u8", 2),
      TokenLiteral("Str", "42", "", 2),
      TokenLiteral("Integer", "7", "", 2),
      TokenPunctuation("+", "Alone", 1),
      TokenPunctuation("+", "Joint", 2),
      TokenPunctuation("-", "Alone", 1),
      TokenGroup("Parenthesis", from_vec(<<X>>), 3),
      TokenGroup("Parenthesis", from_vec(<<TokenIdent("x", 2)>>), 1),
      TokenGroup("Bracket", from_vec(<<X>>), 3),
      TokenGroup("Parenthesis", from_vec(<<X, L>>), 3),
      TokenGroup("Parenthesis", from_vec(<<>>), 3),
      PoppedGroup("Parenthesis", <<L, X>>),
      PoppedGroup("Parenthesis", <<X>>),
      TokenGroup("Brace",
                 from_vec(<<TokenGroup("Parenthesis", from_vec(<<X>>), 3)>>),
                 3),
      TokenGroup("Brace", from_vec(<<PoppedGroup("Parenthesis", <<L, X>>)>>),
                 3) }

\* ------------------------------------------------------------------------
\* State machine: one run of match_patterns over a grammar and a cursor
\* ------------------------------------------------------------------------

VARIABLES
    patterns,   \* the grammar: the `patterns` slice of match_patterns
    input,      \* the cursor as it was handed to match_patterns
    stream,     \* the caller's cursor, `stream: &mut MacroStream`
    output,     \* the output threaded through the calls
    idx,        \* the position of the `for` loop, 1-based
    matches,    \* the accumulator `matches`
    result,     \* the returned Result, Pending until the call returns
    last,       \* the last match_pattern call of the loop and what it returned
    pc,         \* "loop", "done", "parsed", "panicked" or "diverged";
                \* "build" and "rejected" while the grammar is being built
    text,       \* the grammar as written, the stream of the parser! macro
    built,      \* what stream_to_patterns returned for it, Pending before
    cur,        \* a cursor c held by a caller
    frk,        \* its fork f
    snap,       \* c as it was when f was taken
    nops,       \* the number of operations applied to f
    returned,   \* the number of them that returned a token
    cpc,        \* "open", "forked", "committed" or "dropped"
    lhs,        \* the tokens of a comparison `lhs == rhs`
    rhs,
    equal       \* what the comparison returned, Pending before

matchVars == <<patterns, input, stream, output, idx, matches, result, last, pc>>

buildVars == <<text, built>>

cursorVars == <<cur, frk, snap, nops, returned, cpc>>

tokenVars == <<lhs, rhs, equal>>

vars == <<matchVars, buildVars, cursorVars, tokenVars>>

Pending == [variant |-> "Pending"]

NoCall ==
    [self |-> NoPattern, next |-> NoPattern, next2 |-> NoPattern,
     stream |-> from_vec(<<>>), output |-> NewOutput,
     ret |-> Ret(Pending, NewOutput, from_vec(<<>>))]

\* no grammar is being built
NoBuild == text = from_vec(<<>>) /\ built = Pending

\* no cursor is held
NoCursor ==
    /\ cur = from_vec(<<>>)
    /\ frk = from_vec(<<>>)
    /\ snap = from_vec(<<>>)
    /\ nops = 0
    /\ returned = 0
    /\ cpc = "idle"

\* no tokens are compared
NoComparison == lhs = NoToken /\ rhs = NoToken /\ equal = Pending

\* no match is run
NoMatch ==
    /\ patterns = <<>>
    /\ input = from_vec(<<>>)
    /\ stream = input
    /\ output = NewOutput
    /\ idx = 1
    /\ matches = <<>>
    /\ result = Pending
    /\ last = NoCall
    /\ pc = "idle"

Init ==
    /\ patterns \in Grammars
    /\ input \in Inputs
    /\ stream = input
    /\ output = NewOutput
    /\ idx = 1
    /\ matches = <<>>
    /\ result = Pending
    /\ last = NoCall
    /\ pc = "loop"
    /\ NoBuild
    /\ NoCursor
    /\ NoComparison

\* `if let Pattern::Validator(_, _) = pattern { continue; }`
SkipValidator ==
    /\ pc = "loop"
    /\ idx <= Len(patterns)
    /\ patterns[idx].variant = "Validator"
    /\ idx' = idx + 1
    /\ UNCHANGED <<patterns, input, stream, output, matches, result, last, pc>>
    /\ UNCHANGED <<buildVars, cursorVars, tokenVars>>

\* one iteration of the loop: pattern.match_pattern(output,
\* patterns.get(i + 1), patterns.get(i + 2), stream) and the match on what
\* it returns
MatchPattern ==
    /\ pc = "loop"
    /\ idx <= Len(patterns)
    /\ patterns[idx].variant # "Validator"
    /\ LET self == patterns[idx]
           next == Get(patterns, idx + 1)
           next2 == Get(patterns, idx + 2)
       IN \E r \in {match_pattern(self, output, next, next2, stream)} :
          /\ last' = [self |-> self, next |-> next, next2 |-> next2,
                      stream |-> stream, output |-> output, ret |-> r]
          /\ stream' = r.stream
          /\ output' = r.output
          /\ IF IsOk(r.res)
             THEN /\ matches' = push_match(matches, r.res.m)
                  /\ idx' = idx + 1
                  /\ UNCHANGED <<result, pc>>
             ELSE /\ result' = r.res
                  /\ pc' = CASE r.res.variant = "Panic" -> "panicked"
                             [] r.res.variant = "Diverge" -> "diverged"
                             [] OTHER -> "done"
                  /\ UNCHANGED <<matches, idx>>
    /\ UNCHANGED <<patterns, input>>
    /\ UNCHANGED <<buildVars, cursorVars, tokenVars>>

\* `(Ok(Match::Many(matches)), output)` after the loop
Return ==
    /\ pc = "loop"
    /\ idx > Len(patterns)
    /\ result' = Ok(MatchMany(matches))
    /\ pc' = "done"
    /\ UNCHANGED <<patterns, input, stream, output, idx, matches, last>>
    /\ UNCHANGED <<buildVars, cursorVars, tokenVars>>

\* the generated `Parse::parse`: it enters match_patterns with the output
\* Default::default() (the run above) and maps what match_patterns returned:
\* the match tree is dropped, Ok carries the output
Parse ==
    /\ pc = "done"
    /\ result' = IF IsOk(result) THEN Ok(output) ELSE result
    /\ pc' = "parsed"
    /\ UNCHANGED <<patterns, input, stream, output, idx, matches, last>>
    /\ UNCHANGED <<buildVars, cursorVars, tokenVars>>

Next == SkipValidator \/ MatchPattern \/ Return \/ Parse

Spec == Init /\ [][Next]_vars

\* ------------------------------------------------------------------------
\* State machine: a parser built by the parser! macro from a written
\* grammar, then run
\* ------------------------------------------------------------------------

InitBuild ==
    /\ text \in Texts
    /\ built = Pending
    /\ patterns = <<>>
    /\ input \in FlatInputs
    /\ stream = input
    /\ output = NewOutput
    /\ idx = 1
    /\ matches = <<>>
    /\ result = Pending
    /\ last = NoCall
    /\ pc = "build"
    /\ NoCursor
    /\ NoComparison

\* the expansion of parser!: ParserInput::parse builds the patterns with
\* stream_to_patterns; an error aborts the expansion, otherwise the repr of
\* the patterns becomes the pattern list of the generated parser
Build ==
    /\ pc = "build"
    /\ \E r \in {stream_to_patterns(text)} :
          /\ built' = r.res
          /\ IF IsOk(r.res)
             THEN patterns' = repr_patterns(r.res.m) /\ pc' = "loop"
             ELSE patterns' = patterns /\ pc' = "rejected"
    /\ UNCHANGED <<text, input, stream, output, idx, matches, result, last>>
    /\ UNCHANGED <<cursorVars, tokenVars>>

NextBuild == Build \/ SkipValidator \/ MatchPattern \/ Return \/ Parse

SpecBuild == InitBuild /\ [][NextBuild]_vars

\* ------------------------------------------------------------------------
\* State machine: a caller's cursor and its fork
\* ------------------------------------------------------------------------

\* the longest run of operations applied to one fork
MaxOps == 3

InitCursor ==
    /\ cur \in Cursors
    /\ frk = from_vec(<<>>)
    /\ snap = cur
    /\ nops = 0
    /\ returned = 0
    /\ cpc = "open"
    /\ NoMatch
    /\ NoBuild
    /\ NoComparison

\* let f = c.fork()
Fork ==
    /\ cpc \in {"open", "committed", "dropped"}
    /\ frk' = fork(cur)
    /\ snap' = cur
    /\ nops' = 0
    /\ returned' = 0
    /\ cpc' = "forked"
    /\ UNCHANGED <<cur, matchVars, buildVars, tokenVars>>

\* f.pop()
Pop ==
    /\ cpc = "forked"
    /\ nops < MaxOps
    /\ LET p == pop(frk)
       IN /\ frk' = p.stream
          /\ returned' = IF p.token = NoToken THEN returned ELSE returned + 1
    /\ nops' = nops + 1
    /\ UNCHANGED <<cur, snap, cpc, matchVars, buildVars, tokenVars>>

\* f.pop_or_err()
PopOrErr ==
    /\ cpc = "forked"
    /\ nops < MaxOps
    /\ LET p == pop_or_err(frk)
       IN /\ frk' = p.stream
          /\ returned' = IF p.ok THEN returned + 1 ELSE returned
    /\ nops' = nops + 1
    /\ UNCHANGED <<cur, snap, cpc, matchVars, buildVars, tokenVars>>

\* f.push_front(token)
PushFront ==
    /\ cpc = "forked"
    /\ nops < MaxOps
    /\ Len(frk.stream) < MaxLen
    /\ \E token \in FlatTokens : frk' = push_front(frk, token)
    /\ nops' = nops + 1
    /\ UNCHANGED <<cur, snap, returned, cpc, matchVars, buildVars, tokenVars>>

\* f.push_back(token)
PushBack ==
    /\ cpc = "forked"
    /\ nops < MaxOps
    /\ Len(frk.stream) < MaxLen
    /\ \E token \in FlatTokens : frk' = push_back(frk, token)
    /\ nops' = nops + 1
    /\ UNCHANGED <<cur, snap, returned, cpc, matchVars, buildVars, tokenVars>>

\* c.unfork(f)
Unfork ==
    /\ cpc = "forked"
    /\ cur' = unfork(cur, frk)
    /\ cpc' = "committed"
    /\ UNCHANGED <<frk, snap, nops, returned, matchVars, buildVars, tokenVars>>

\* f goes out of scope
Drop ==
    /\ cpc = "forked"
    /\ cpc' = "dropped"
    /\ UNCHANGED <<cur, frk, snap, nops, returned, matchVars, buildVars,
                   tokenVars>>

NextCursor ==
    Fork \/ Pop \/ PopOrErr \/ PushFront \/ PushBack \/ Unfork \/ Drop

SpecCursor == InitCursor /\ [][NextCursor]_vars

\* ------------------------------------------------------------------------
\* State machine: a comparison of two tokens
\* ------------------------------------------------------------------------

InitTokens ==
    /\ lhs \in ComparedTokens
    /\ rhs \in ComparedTokens
    /\ equal = Pending
    /\ NoMatch
    /\ NoBuild
    /\ NoCursor

\* the bool a comparison returned
Compared(b) == [variant |-> "Compared", value |-> b]

\* lhs == rhs
Compare ==
    /\ equal = Pending
    /\ equal' = Compared(TokenEq(lhs, rhs))
    /\ UNCHANGED <<lhs, rhs, matchVars, buildVars, cursorVars>>

NextTokens == Compare

SpecTokens == InitTokens /\ [][NextTokens]_vars

\* the run agrees with match_patterns applied to the grammar and the cursor
RunIsMatchPatterns ==
    pc \in {"done", "panicked", "diverged"} =>
        LET r == match_patterns(NewOutput, patterns, input)
        IN r.res = result /\ r.output = output /\ r.stream = stream

\* ------------------------------------------------------------------------
\* Properties
\* ------------------------------------------------------------------------

\* the loop has made a match_pattern call
Called == last.self # NoPattern

\* the call's `next` is a Validator that carries a predicate
HookApplies(call) == call.next.variant = "Validator" /\ call.next.f # "None"

\* the lookahead pattern of the call
MatchNextOf(call) ==
    IF call.next.variant = "Validator" THEN call.next2 ELSE call.next

\* what the variant's arm of the call evaluated to, before the final
\* `match (next, res)`
Arm(call) ==
    match_variant(call.self, call.output, MatchNextOf(call), call.stream)

\* the call handed a value back to its caller
Returned(call) == ~Aborts(call.ret.res)

\* the front token of the cursor the call was made on
Front(call) == peek(call.stream)

\* C1: a successful match of Group(d, body) removes exactly the Group token
\* at the front of the cursor: the cursor afterwards holds the tokens that
\* followed it, in the same order.
C1_GroupRemovesOneToken ==
    (Called /\ last.self.variant = "Group" /\ IsOk(last.ret.res)) =>
        last.ret.stream.stream = Tail(last.stream.stream)

\* C2: matching the grammar [Token(t)] with match_patterns against a cursor
\* whose front token u differs from t fails with Expected(t, u) and leaves
\* the caller's cursor as it was: u at the front, same length.
C2_TokenMismatchLeavesCursor ==
    (/\ pc = "done"
     /\ Len(patterns) = 1
     /\ patterns[1].variant = "Token"
     /\ ~is_empty(input)
     /\ ~TokenEq(peek(input), patterns[1].token)) =>
        /\ result = Err(ErrExpected(patterns[1].token, peek(input)))
        /\ peek(stream) = peek(input)
        /\ Len(stream.stream) = Len(input.stream)

\* C3: matching Token(t) on a cursor whose front token is structurally
\* equal to t yields Match::One(front token) and leaves the cursor with
\* exactly its first token removed.
C3_TokenMatchConsumesFront ==
    (/\ Called
     /\ last.self.variant = "Token"
     /\ Front(last) # NoToken
     /\ TokenEq(Front(last), last.self.token)) =>
        /\ Arm(last).res = Ok(MatchOne(Front(last)))
        /\ Arm(last).stream.stream = Tail(last.stream.stream)
        /\ last.ret.stream.stream = Tail(last.stream.stream)
        /\ ~HookApplies(last) => last.ret.res = Ok(MatchOne(Front(last)))

\* C3 witness: a Token pattern has matched an equal front token.
C3_Witness ==
    /\ Called
    /\ last.self.variant = "Token"
    /\ Front(last) # NoToken
    /\ TokenEq(Front(last), last.self.token)
    /\ Front(last) # last.self.token
    /\ last.ret.res = Ok(MatchOne(Front(last)))
    /\ Len(last.stream.stream) > 1

\* the number of repetitions a repetition's result accumulated
Reps(res) == IF res.m.variant = "Many" THEN Len(res.m.matches) ELSE 0

\* the tokens a call removed from the front of its cursor, given the
\* content before and after
Consumed(before, after) ==
    SubSeq(before, 1, Len(before) - Len(after))

IsPrefix(s, t) == Len(s) <= Len(t) /\ s = SubSeq(t, 1, Len(s))

RECURSIVE Repeated(_, _, _, _)

\* the output and cursor after j consecutive successful matches of the
\* sequence g, each committed; ok is FALSE when fewer than j succeed
Repeated(g, o, s, j) ==
    IF j = 0
    THEN [ok |-> TRUE, output |-> o, stream |-> s]
    ELSE LET p == Repeated(g, o, s, j - 1) IN
         IF ~p.ok
         THEN p
         ELSE LET r == match_patterns(p.output, g, fork(p.stream)) IN
              IF IsOk(r.res)
              THEN [ok |-> TRUE, output |-> r.output,
                    stream |-> unfork(p.stream, r.stream)]
              ELSE [ok |-> FALSE, output |-> r.output, stream |-> p.stream]

\* pattern p matches right after j repetitions of g
MatchesAfter(p, g, o, s, j) ==
    LET at == Repeated(g, o, s, j) IN
    /\ at.ok
    /\ IsOk(match_pattern(p, at.output, NoPattern, NoPattern,
                          fork(at.stream)).res)

\* the last call is a ZeroOrMore with a pattern to look ahead for
IsRepetitionBefore(call, greedy) ==
    /\ call.self.variant = "ZeroOrMore"
    /\ call.self.greedy = greedy
    /\ MatchNextOf(call) # NoPattern

\* C4: in [ZeroOrMore(g, greedy=false), p] the repetition consumes the
\* least number k >= 0 of repetitions of g after which p matches; when p
\* matches at the starting position, k = 0.
C4_NonGreedyIsMinimal ==
    (Called /\ IsRepetitionBefore(last, FALSE) /\ IsOk(Arm(last).res)) =>
        LET k == Reps(Arm(last).res)
            J == {j \in 0..Len(last.stream.stream) :
                    MatchesAfter(MatchNextOf(last), last.self.patterns,
                                 last.output, last.stream, j)}
        IN J # {} => (k \in J /\ \A j \in J : k <= j)

\* C5: on the same input the non-greedy ZeroOrMore(g) followed by p
\* accumulates at most as many repetitions as the greedy one, and consumes
\* a prefix of what the greedy one consumes.
C5_NonGreedyWithinGreedy ==
    (Called /\ IsRepetitionBefore(last, FALSE) /\ IsOk(Arm(last).res)) =>
        LET lazy == Arm(last)
            greedy == match_variant(
                        PatternZeroOrMore(last.self.patterns, TRUE),
                        last.output, MatchNextOf(last), last.stream)
        IN IsOk(greedy.res) =>
            /\ Reps(lazy.res) <= Reps(greedy.res)
            /\ IsPrefix(Consumed(last.stream.stream, lazy.stream.stream),
                        Consumed(last.stream.stream, greedy.stream.stream))

\* C6: a greedy ZeroOrMore(g) returns only when g fails at the cursor: it
\* has made the largest number k of consecutive repetitions, the cursor is
\* the one after the k-th, and what follows it in the sequence plays no part.
C6_GreedyIsMaximal ==
    (/\ Called
     /\ last.self.variant = "ZeroOrMore"
     /\ last.self.greedy
     /\ Returned(last)) =>
        LET a == Arm(last)
            k == Reps(a.res)
            g == last.self.patterns
            at == Repeated(g, last.output, last.stream, k)
            alone == match_variant(last.self, last.output, NoPattern,
                                   last.stream)
        IN /\ IsOk(a.res)
           /\ at.ok
           /\ a.stream = at.stream
           /\ last.ret.stream = at.stream
           /\ ~Repeated(g, last.output, last.stream, k + 1).ok
           /\ IsErr(match_patterns(at.output, g, fork(a.stream)).res)
           /\ a.res = alone.res
           /\ a.stream = alone.stream

\* C6 witness: a greedy ZeroOrMore followed by a pattern that matches
\* before the input ends has made two repetitions or more.
C6_Witness ==
    /\ Called
    /\ IsRepetitionBefore(last, TRUE)
    /\ IsOk(last.ret.res)
    /\ Reps(last.ret.res) >= 2
    /\ MatchesAfter(MatchNextOf(last), last.self.patterns, last.output,
                    last.stream, 1)

RECURSIVE FirstMatching(_, _, _, _)

\* the first alternative, from the i-th on, whose sequence succeeds on the
\* cursor s, with what it returns; the output passes from a failed
\* alternative to the next
FirstMatching(choices, i, o, s) ==
    IF i > Len(choices)
    THEN [found |-> FALSE, i |-> 0, ret |-> Ret(Pending, o, s)]
    ELSE LET r == match_patterns(o, choices[i], fork(s)) IN
         IF IsErr(r.res)
         THEN FirstMatching(choices, i + 1, r.output, s)
         ELSE [found |-> TRUE, i |-> i, ret |-> r]

\* C7: a Choice commits the first alternative in listed order whose whole
\* sequence succeeds: its result, output and cursor are that alternative's,
\* also when a later alternative would succeed too.
C7_ChoiceTakesFirst ==
    (Called /\ last.self.variant = "Choice" /\ Returned(last)) =>
        LET choices == last.self.choices
            first == FirstMatching(choices, 1, last.output, last.stream)
            a == IF choices = <<>>
                 THEN Ret(Pending, last.output, last.stream)
                 ELSE match_patterns(last.output, choices[1],
                                     fork(last.stream))
        IN /\ IsOk(a.res) =>
                /\ last.ret.res = a.res
                /\ last.ret.output = a.output
                /\ last.ret.stream.stream = a.stream.stream
           /\ first.found =>
                /\ last.ret.res = first.ret.res
                /\ last.ret.output = first.ret.output
                /\ last.ret.stream.stream = first.ret.stream.stream
           /\ ~first.found => IsErr(last.ret.res)

\* C7 witness: both alternatives of a Choice succeed on the input, with
\* different results, and the Choice has returned the first one's.
C7_Witness ==
    /\ Called
    /\ last.self.variant = "Choice"
    /\ Len(last.self.choices) = 2
    /\ LET a == match_patterns(last.output, last.self.choices[1],
                               fork(last.stream))
           b == match_patterns(last.output, last.self.choices[2],
                               fork(last.stream))
       IN /\ IsOk(a.res)
          /\ IsOk(b.res)
          /\ a.res # b.res
          /\ last.ret.res = a.res

\* what the body of the Optional of the call returns on a fork of the
\* call's cursor
BodyOf(call) ==
    match_patterns(call.output, call.self.patterns, fork(call.stream))

\* the match an Optional makes of what its body returned
OptionalMatch(body) == IF IsOk(body.res) THEN body.res.m ELSE MatchNone

\* C8 as claimed: match_pattern on an Optional node always returns Ok, with
\* Match::None when the body did not match and the body's match otherwise.
C8_OptionalNeverFails ==
    (Called /\ last.self.variant = "Optional" /\ Returned(last)) =>
        last.ret.res = Ok(OptionalMatch(BodyOf(last)))

\* C8 as amended: match_pattern on an Optional node returns Ok, with
\* Match::None when the body did not match and the body's match otherwise,
\* unless the predicate of a Validator that immediately follows the
\* Optional rejects that match: then, and only then, it returns an error,
\* which is ValidatorFailed.
C8_OptionalFailsOnlyByValidator ==
    (Called /\ last.self.variant = "Optional" /\ Returned(last)) =>
        LET body == BodyOf(last)
            m == OptionalMatch(body)
            rejected == /\ HookApplies(last)
                        /\ ~ValidatorAccepts(last.next.f, body.output, m)
        IN /\ Arm(last).res = Ok(m)
           /\ ~rejected => last.ret.res = Ok(m)
           /\ rejected =>
                /\ IsErr(last.ret.res)
                /\ last.ret.res.e.kind = "ValidatorFailed"

\* C8 witness: the body of an Optional has failed on a non-empty cursor
\* and the Optional has returned Ok(Match::None).
C8_Witness ==
    /\ Called
    /\ last.self.variant = "Optional"
    /\ ~is_empty(last.stream)
    /\ IsErr(BodyOf(last).res)
    /\ last.ret.res = Ok(MatchNone)

\* C9: whenever a node of any variant that is followed by a Validator with
\* a predicate matches, the predicate is called exactly once, with the
\* output and the match just produced, before the sequence goes on, and a
\* rejection makes the node fail with ValidatorFailed.
C9_ValidatorCalledAfterEveryVariant ==
    (Called /\ HookApplies(last) /\ IsOk(Arm(last).res)) =>
        LET a == Arm(last)
            v == CallValidator(last.next.f, a.output, a.res.m)
        IN /\ last.ret.output = v.output
           /\ v.ok => last.ret.res = a.res
           /\ ~v.ok =>
                last.ret.res =
                    Err(ErrValidatorFailed(v.msg, peek_span(a.stream)))

\* the error with which the sequence g fails on a fork of cursor s is a
\* ValidatorFailed
FailsByValidator(o, g, s) ==
    LET r == match_patterns(o, g, fork(s)) IN
    IsErr(r.res) /\ r.res.e.kind = "ValidatorFailed"

\* C10: a ValidatorFailed raised in the body of an Optional makes the
\* Optional return Ok(Match::None) with its cursor unchanged; one raised in
\* an alternative of a Choice makes the Choice drop that alternative's fork
\* and go on with the next alternative, as for any other failure.
C10_ValidatorFailureIsASubFailure ==
    /\ (/\ Called
        /\ last.self.variant = "Optional"
        /\ FailsByValidator(last.output, last.self.patterns, last.stream)) =>
            /\ Arm(last).res = Ok(MatchNone)
            /\ Arm(last).stream = last.stream
            /\ last.ret.stream = last.stream
            /\ ~HookApplies(last) => last.ret.res = Ok(MatchNone)
    /\ (/\ Called
        /\ last.self.variant = "Choice"
        /\ last.self.choices # <<>>
        /\ FailsByValidator(last.output, Head(last.self.choices),
                            last.stream)) =>
            LET first == match_patterns(last.output, Head(last.self.choices),
                                        fork(last.stream))
                rest == match_pattern(PatternChoice(Tail(last.self.choices)),
                                      first.output, last.next, last.next2,
                                      last.stream)
            IN /\ last.ret.res = rest.res
               /\ last.ret.output = rest.output
               /\ last.ret.stream = rest.stream
               /\ Len(last.self.choices) = 1 =>
                    /\ last.ret.res =
                         Err(ErrNoMatchingChoice(peek_span(last.stream)))
                    /\ last.ret.stream = last.stream

\* C10 witness: the body of an Optional has failed with ValidatorFailed
\* after consuming a token on its fork, and the Optional has returned
\* Ok(Match::None) on the untouched cursor.
C10_Witness ==
    /\ Called
    /\ last.self.variant = "Optional"
    /\ ~is_empty(last.stream)
    /\ FailsByValidator(last.output, last.self.patterns, last.stream)
    /\ last.ret.res = Ok(MatchNone)
    /\ last.ret.stream = last.stream

\* a Choice whose first alternative failed with ValidatorFailed has
\* committed its second alternative
C10_ChoiceWitness ==
    /\ Called
    /\ last.self.variant = "Choice"
    /\ Len(last.self.choices) = 2
    /\ FailsByValidator(last.output, Head(last.self.choices), last.stream)
    /\ IsOk(last.ret.res)

\* the set_match calls of output o, in call order
SetMatchCalls(o) == SelectSeq(o.calls, LAMBDA c : c.op = "set_match")

\* the set_match calls of output o made for the parameter k
SetMatchCallsFor(o, k) ==
    SelectSeq(o.calls, LAMBDA c : c.op = "set_match" /\ c.k = k)

\* the run was over a grammar of exactly n nodes and has returned Ok
DoneOk(n) == pc = "done" /\ IsOk(result) /\ Len(patterns) = n

\* the first node of the grammar is a repetition that looks ahead
FirstLooksAhead ==
    /\ patterns[1].variant \in {"ZeroOrMore", "OneOrMore"}
    /\ ~patterns[1].greedy

\* C11: in one run of match_patterns set_match is called exactly once per
\* successful Parameter match, in grammar order; a Parameter that follows a
\* non-greedy repetition gets one call for its match in the result, none
\* for the lookahead probes of the repetition.
C11_SetMatchOncePerParameter ==
    (DoneOk(2) /\ patterns[2].variant = "Parameter") =>
        /\ Len(SetMatchCallsFor(output, patterns[2].name)) = 1
        /\ SetMatchCalls(output)[Len(SetMatchCalls(output))].k =
                patterns[2].name

\* the captures the sink holds after the committed repetitions of the
\* first node alone: k successful matches of its body, nothing else
CommittedRepetitions(k) ==
    Repeated(patterns[1].patterns, NewOutput, input, k)

\* C12: the output of a successful top-level match holds only captures of
\* the committed path: none made in a failed Optional body, in a failed
\* Choice alternative, in a failed repetition, or in a lookahead probe.
C12_OnlyCommittedCaptures ==
    /\ (DoneOk(1) /\ patterns[1].variant = "Optional") =>
            LET body == match_patterns(NewOutput, patterns[1].patterns,
                                       fork(input))
            IN IsErr(body.res) => output.sets = <<>>
    /\ (DoneOk(1) /\ patterns[1].variant = "Choice") =>
            LET first == FirstMatching(patterns[1].choices, 1, NewOutput,
                                       input)
                alone == match_patterns(NewOutput,
                                        patterns[1].choices[first.i],
                                        fork(input))
            IN output.sets = alone.output.sets
    /\ (DoneOk(1) /\ patterns[1].variant \in {"ZeroOrMore", "OneOrMore"}) =>
            LET at == CommittedRepetitions(Reps(result.m.matches[1]))
            IN at.ok => output.sets = at.output.sets
    /\ (DoneOk(2) /\ FirstLooksAhead
            /\ patterns[2].variant = "Parameter") =>
            Len(SelectSeq(output.sets,
                          LAMBDA c : c.k = patterns[2].name)) = 1

\* C13: the generated parse returns Ok only when it consumed the whole
\* cursor; tokens left over after the grammar matched make it an error.
C13_ParseConsumesWholeCursor ==
    (pc = "parsed" /\ IsOk(result)) => is_empty(stream)

\* the grammar and the cursor of the round-trip scenario: ( x 42 )
RoundTripGrammar ==
    <<PatternGroup("Parenthesis",
                   <<PX, PatternParameter(<<PatternAny>>, "rest")>>)>>

RoundTripInput == from_vec(<<TokenGroup("Parenthesis", from_vec(<<X, L>>), 3)>>)

RoundTripDone ==
    patterns = RoundTripGrammar /\ input = RoundTripInput /\ pc = "done"

\* the run succeeded, its only sink call was set_match("rest", m), accepted,
\* and the cursor is empty
RoundTripBinds(m) ==
    /\ IsOk(result)
    /\ SetMatchCalls(output) =
            <<[op |-> "set_match", k |-> "rest", m |-> m, ok |-> TRUE]>>
    /\ output.sets = <<[k |-> "rest", m |-> m]>>
    /\ is_empty(stream)

\* C14 as stated: the scenario succeeds, calls set_match("rest",
\* Match::One(Literal 42)) and leaves the cursor empty.
C14_RestIsOne == RoundTripDone => RoundTripBinds(MatchOne(L))

\* C14: the scenario succeeds, calls set_match("rest", m) with m the Many
\* that holds the single One(Literal 42), and leaves the cursor empty.
C14_RestIsManyOfOne ==
    RoundTripDone => RoundTripBinds(MatchMany(<<MatchOne(L)>>))

C14_Witness == RoundTripDone /\ IsOk(result) /\ Len(output.sets) = 1

RECURSIVE NodeHas(_, _)
RECURSIVE SeqHas(_, _)

\* the node p, or a node nested in it, is of a variant in V
NodeHas(p, V) ==
    \/ p.variant \in V
    \/ CASE p.variant \in {"Optional", "ZeroOrMore", "OneOrMore",
                           "Parameter", "Group"} -> SeqHas(p.patterns, V)
         [] p.variant = "Choice" ->
                \E i \in 1..Len(p.choices) : SeqHas(p.choices[i], V)
         [] OTHER -> FALSE

SeqHas(ps, V) == \E i \in 1..Len(ps) : NodeHas(ps[i], V)

\* the number of One leaves of a match tree
OneLeaves(m) == Len(MatchTokens(m))

\* the number of tokens the run's cursor advanced by
Advanced == Len(input.stream) - Len(stream.stream)

\* C15 as stated: when match_patterns succeeds, the One leaves of the
\* returned tree are as many as the tokens the cursor advanced by.
C15_LeavesEqualAdvance ==
    (pc = "done" /\ IsOk(result)) => OneLeaves(result.m) = Advanced

\* C15: for a grammar with no Group node, when match_patterns succeeds the
\* One leaves of the returned tree are as many as the tokens the cursor
\* advanced by.
C15_LeavesEqualAdvanceWithoutGroup ==
    (pc = "done" /\ IsOk(result) /\ ~SeqHas(patterns, {"Group"})) =>
        OneLeaves(result.m) = Advanced

C15_Witness ==
    /\ pc = "done" /\ IsOk(result) /\ ~SeqHas(patterns, {"Group"})
    /\ Len(patterns) = 2
    /\ Advanced = 3
    /\ OneLeaves(result.m) = 3

Repetitions == {"ZeroOrMore", "OneOrMore"}

\* the positions of the returned list that hold a Many
NestedMany == {i \in 1..Len(result.m.matches) :
                    result.m.matches[i].variant = "Many"}

\* what the first node of the grammar returned
FirstResult ==
    match_pattern(patterns[1], NewOutput, Get(patterns, 2),
                  Get(patterns, 3), input).res

\* C16 as stated: the returned tree holds a Many inside a Many only at a
\* Parameter or Group boundary, never for a repetition iteration.
C16_NestingOnlyAtBoundaries ==
    (pc = "done" /\ IsOk(result)
        /\ ~SeqHas(patterns, {"Parameter", "Group"})) =>
        NestedMany = {}

\* C16: a Many returned by a node is spliced into the list of its sequence,
\* so the returned tree holds a Many inside a Many only as the match of one
\* iteration of a repetition: none at all for a grammar without ZeroOrMore
\* and OneOrMore (Parameter and Group included), and one per iteration of a
\* repetition, each a flat list of One.
C16_NestingOnlyPerIteration ==
    (pc = "done" /\ IsOk(result)) =>
        /\ ~SeqHas(patterns, Repetitions) => NestedMany = {}
        /\ (patterns[1].variant \in Repetitions
                /\ ~SeqHas(Tail(patterns), Repetitions)
                /\ ~SeqHas(patterns[1].patterns, Repetitions)) =>
                /\ NestedMany = 1..Reps(FirstResult)
                /\ \A i \in NestedMany :
                      \A j \in 1..Len(result.m.matches[i].matches) :
                          result.m.matches[i].matches[j].variant = "One"

C16_Witness ==
    /\ pc = "done" /\ IsOk(result)
    /\ patterns[1].variant \in Repetitions
    /\ Len(patterns) = 2
    /\ NestedMany = {1, 2}
    /\ Len(result.m.matches) = 3

C16_BoundaryWitness ==
    /\ pc = "done" /\ IsOk(result)
    /\ patterns[1].variant = "Parameter"
    /\ Len(result.m.matches) = 2
    /\ NestedMany = {}

\* no Validator is the first node of the sequence or follows a Validator
WellPlaced(ps) ==
    \A i \in 1..Len(ps) :
        ps[i].variant = "Validator" =>
            i > 1 /\ ps[i - 1].variant # "Validator"

RECURSIVE AllWellPlaced(_)

\* every sequence of the grammar is well placed: the sequence itself, the
\* bodies of its nodes and the alternatives of its choices
AllWellPlaced(ps) ==
    /\ WellPlaced(ps)
    /\ \A i \in 1..Len(ps) :
          CASE ps[i].variant \in {"Optional", "ZeroOrMore", "OneOrMore",
                                  "Parameter", "Group"} ->
                    AllWellPlaced(ps[i].patterns)
            [] ps[i].variant = "Choice" ->
                    \A j \in 1..Len(ps[i].choices) :
                        AllWellPlaced(ps[i].choices[j])
            [] OTHER -> TRUE

\* C17: grammar construction rejects every grammar in which some sequence,
\* the body of a Parameter and the alternatives of a Choice included, has a
\* Validator as its first node or two consecutive Validators: whatever it
\* returns Ok for is well placed throughout.
C17_ConstructionRejectsMisplacedValidators ==
    IsOk(built) => AllWellPlaced(built.m)

\* C18: matching never aborts the process: the panic of match_pattern on a
\* Validator node is never reached, the lookahead of a non-greedy
\* repetition included.
C18_MatchingNeverPanics == pc # "panicked"

\* C19: while f is operated on and after it is dropped, c is as it was
\* when f was taken; f starts with the content of c and a counter of 0;
\* after c.unfork(f), c holds what was left in f and its counter is 0.
C19_ForkIsTransactional ==
    /\ cpc \in {"forked", "dropped"} => cur = snap
    /\ (cpc = "forked" /\ nops = 0) =>
            frk.stream = cur.stream /\ frk.popped = 0
    /\ cpc = "committed" => cur.stream = frk.stream /\ cur.popped = 0

C19_Witness ==
    /\ cpc = "committed"
    /\ nops = MaxOps
    /\ snap.popped > 0
    /\ frk.popped > 0
    /\ cur.stream # snap.stream
    /\ cur.stream # <<>>

C19_DropWitness ==
    /\ cpc = "dropped"
    /\ nops = MaxOps
    /\ frk.stream # cur.stream
    /\ cur.popped > 0

RECURSIVE SameToken(_, _)

\* equality as the claim states it: by variant, over name | delimiter and
\* inner tokens | kind, value and suffix | character
SameToken(a, b) ==
    CASE a.variant = "Ident" /\ b.variant = "Ident" -> a.name = b.name
      [] a.variant = "Literal" /\ b.variant = "Literal" ->
            a.kind = b.kind /\ a.value = b.value /\ a.suffix = b.suffix
      [] a.variant = "Punctuation" /\ b.variant = "Punctuation" ->
            a.value = b.value
      [] a.variant = "Group" /\ b.variant = "Group" ->
            /\ a.delimiter = b.delimiter
            /\ Len(a.stream.stream) = Len(b.stream.stream)
            /\ \A i \in 1..Len(a.stream.stream) :
                    SameToken(a.stream.stream[i], b.stream.stream[i])
      [] OTHER -> FALSE

\* C20: token equality is structural and ignores position; two Group
\* tokens are equal iff their delimiters are equal and their inner tokens
\* are element-wise equal, whatever the consumed counters of the inner
\* sequences are.
C20_TokenEqualityIsStructural ==
    equal # Pending => equal = Compared(SameToken(lhs, rhs))

\* the grammar of TestParser: {}$ { {}$ : param }@
TestParserText == from_vec(TAny \o TPar(TAny, "param"))

\* TestParser is run on a cursor of exactly two tokens
TestParserRun == text = TestParserText /\ Len(input.stream) = 2

\* C21: for the grammar [Any, Parameter([Any], "param")] and every input of
\* exactly two tokens [a, b], parsing succeeds, set_match is called once,
\* with the name "param" and a match whose only leaf is b, and the cursor is
\* empty afterwards.
C21_TestParserBindsSecondToken ==
    TestParserRun =>
        /\ pc \notin {"rejected", "panicked", "diverged"}
        /\ pc = "done" => IsOk(result)
        /\ pc = "parsed" =>
              /\ IsOk(result)
              /\ is_empty(stream)
              /\ Len(SetMatchCalls(result.m)) = 1
              /\ SetMatchCalls(result.m)[1].k = "param"
              /\ SetMatchCalls(result.m)[1].ok
              /\ MatchTokens(SetMatchCalls(result.m)[1].m) =
                    <<input.stream[2]>>

C21_Witness ==
    /\ TestParserRun
    /\ pc = "parsed"
    /\ input.stream = <<X, L>>
    /\ result.m.sets = <<[k |-> "param", m |-> MatchMany(<<MatchOne(L)>>)]>>

\* C22: when the body of an Optional fails, the Optional returns
\* Ok(Match::None), leaves the cursor exactly as it was before the attempt,
\* and returns the output as the failed attempt left it: the set_match
\* effects made inside the body before it failed are in the output that is
\* carried forward.
C22_FailedOptionalKeepsBodyOutput ==
    (Called /\ last.self.variant = "Optional" /\ IsErr(BodyOf(last).res)) =>
        /\ Arm(last) = Ret(Ok(MatchNone), BodyOf(last).output, last.stream)
        /\ last.ret.stream = last.stream
        /\ last.ret.output.sets = BodyOf(last).output.sets
        /\ IsPrefix(BodyOf(last).output.calls, last.ret.output.calls)
        /\ ~HookApplies(last) => last.ret = Arm(last)

\* C22 witness: the body of an Optional has failed after a set_match that
\* the sink accepted, and the capture is in the output the Optional returned
C22_Witness ==
    /\ Called
    /\ last.self.variant = "Optional"
    /\ IsErr(BodyOf(last).res)
    /\ last.output.sets = <<>>
    /\ last.ret.output.sets # <<>>
    /\ last.ret.res = Ok(MatchNone)
    /\ last.ret.stream = last.stream

\* C23: when the body of OneOrMore fails on its first iteration, with no
\* repetition matched, OneOrMore fails with the error kind
\* ExpectedRepetition and the cursor is unchanged.
C23_NoRepetitionIsExpectedRepetition ==
    (Called /\ last.self.variant = "OneOrMore" /\ IsErr(BodyOf(last).res)) =>
        /\ IsErr(last.ret.res)
        /\ last.ret.res.e.kind = "ExpectedRepetition"
        /\ last.ret.stream = last.stream

\* the inner cursor a Group call forks: the stream of the group token at
\* the front of the call's cursor
InnerOf(call) == fork(Front(call).stream)

\* the call is a Group pattern met by a group token of its delimiter
EntersGroup(call) ==
    /\ call.self.variant = "Group"
    /\ Front(call).variant = "Group"
    /\ Front(call).delimiter = call.self.delimiter

\* what the body of the Group returned on the inner cursor
GroupBodyOf(call) ==
    match_patterns(call.output, call.self.patterns, InnerOf(call))

\* C24: a Group fails with InputTooLong only when its body matched the
\* inner sequence and left inner tokens unconsumed; when the body fails,
\* the Group returns the body's own error, whether or not inner tokens
\* remain.
C24_InputTooLongOnlyAfterBodyMatch ==
    (Called /\ EntersGroup(last) /\ Returned(last)) =>
        /\ IsErr(GroupBodyOf(last).res) =>
                last.ret.res = GroupBodyOf(last).res
        /\ (IsErr(last.ret.res) /\ last.ret.res.e.kind = "InputTooLong") =>
                /\ IsOk(GroupBodyOf(last).res)
                /\ ~is_empty(GroupBodyOf(last).stream)

\* C25: a cursor's consumed counter equals the number of tokens removed
\* from its front since it was forked: after any sequence of pop and
\* pop_or_err calls on a fork, popped() equals the number of calls that
\* returned a token.
C25_PoppedCountsReturnedTokens ==
    cpc = "forked" => frk.popped = returned

\* the set_match call a Parameter makes with the match of its body
ParameterCall(call) ==
    [op |-> "set_match", k |-> call.self.name, m |-> BodyOf(call).res.m,
     ok |-> SinkAccepts(call.self.name, BodyOf(call).res.m)]

\* C26: for Parameter(body, name): if body fails, the Parameter fails with
\* the body's error unchanged, set_match is not called and the cursor is
\* unchanged; if body succeeds, set_match(name, m) is called exactly once
\* with the match m produced by body, and if the sink rejects the value the
\* Parameter fails with the sink's error.
C26_ParameterCallsSinkOnce ==
    (Called /\ last.self.variant = "Parameter" /\ Returned(last)) =>
        /\ IsErr(BodyOf(last).res) =>
              /\ last.ret.res = BodyOf(last).res
              /\ last.ret.output = BodyOf(last).output
              /\ last.ret.stream = last.stream
        /\ IsOk(BodyOf(last).res) =>
              /\ Arm(last).output.calls =
                    Append(BodyOf(last).output.calls, ParameterCall(last))
              /\ IsPrefix(Arm(last).output.calls, last.ret.output.calls)
              /\ Len(SetMatchCalls(last.ret.output)) =
                    Len(SetMatchCalls(BodyOf(last).output)) + 1
              /\ ParameterCall(last).ok =>
                    Arm(last).res = BodyOf(last).res
              /\ ~ParameterCall(last).ok =>
                    last.ret.res = Err(ErrUser(last.self.name))

\* C26 witness: the body of a Parameter matched and the sink rejected the
\* value
C26_Witness ==
    /\ Called
    /\ last.self.variant = "Parameter"
    /\ IsOk(BodyOf(last).res)
    /\ ~ParameterCall(last).ok
    /\ last.ret.res = Err(ErrUser(last.self.name))

\* C26 witness: the body of a Parameter failed after consuming a token in
\* its fork
C26_FailureWitness ==
    /\ Called
    /\ last.self.variant = "Parameter"
    /\ IsErr(BodyOf(last).res)
    /\ BodyOf(last).stream # fork(last.stream)
    /\ last.ret.stream = last.stream
    /\ ~is_empty(last.stream)

\* every alternative of the Choice of the call fails on the call's cursor
AllChoicesFail(call) ==
    ~FirstMatching(call.self.choices, 1, call.output, call.stream).found

\* C27: when every alternative of a Choice fails, a Choice with no
\* alternatives included, the Choice fails with NoMatchingChoice and the
\* cursor is exactly as it was before the Choice was attempted: no token
\* consumed by a failed alternative is missing from it.
C27_FailedChoiceLeavesCursor ==
    (Called /\ last.self.variant = "Choice" /\ AllChoicesFail(last)) =>
        /\ last.ret.res = Err(ErrNoMatchingChoice(peek_span(last.stream)))
        /\ last.ret.stream = last.stream

\* C27 witness: both alternatives of a Choice failed, the first one after
\* consuming a token in its fork
C27_Witness ==
    /\ Called
    /\ last.self.variant = "Choice"
    /\ Len(last.self.choices) = 2
    /\ AllChoicesFail(last)
    /\ ~is_empty(last.stream)
    /\ Len(match_patterns(last.output, last.self.choices[1],
                          fork(last.stream)).stream.stream)
            < Len(last.stream.stream)
    /\ last.ret.stream = last.stream

\* C27 witness: a Choice with no alternatives has failed on a non-empty
\* cursor
C27_EmptyWitness ==
    /\ Called
    /\ last.self = PatternChoice(<<>>)
    /\ ~is_empty(last.stream)
    /\ IsErr(last.ret.res)
    /\ last.ret.res.e.kind = "NoMatchingChoice"

\* C28: match_patterns terminates on every finite grammar and every finite
\* input, also when the body of a ZeroOrMore or OneOrMore can succeed
\* without consuming a token.
C28_MatchPatternsTerminates == pc # "diverged"

\* C29: for every grammar with no Group pattern and every input on which
\* match_patterns succeeds, the tokens of the returned Match, converted
\* with From<Match> for MacroStream, are exactly the tokens the cursor
\* consumed, in input order, and the remaining cursor is the rest of the
\* input.
C29_MatchTokensAreConsumedPrefix ==
    (pc = "done" /\ IsOk(result) /\ ~SeqHas(patterns, {"Group"})) =>
        input.stream = MatchTokens(result.m) \o stream.stream

\* C29 witness: a grammar with a repetition and no Group has matched two
\* different tokens and left a third on the cursor
C29_Witness ==
    /\ pc = "done"
    /\ IsOk(result)
    /\ ~SeqHas(patterns, {"Group"})
    /\ patterns[1].variant \in Repetitions
    /\ MatchTokens(result.m) = <<X, L>>
    /\ stream.stream = <<X>>

\* the grammar is a repetition with no lookahead pattern: it is the last
\* node, or only a Validator that is the last node follows it
NoLookahead ==
    /\ patterns[1].variant \in Repetitions
    /\ \/ Len(patterns) = 1
       \/ Len(patterns) = 2 /\ patterns[2].variant = "Validator"

\* the grammar with its first node made greedy
GreedyTwin == [patterns EXCEPT ![1].greedy = TRUE]

\* C30: a non-greedy ZeroOrMore or OneOrMore that has no lookahead pattern
\* behaves exactly like its greedy variant: for every body and input both
\* return the same result, the same remaining cursor and the same sequence
\* of set_match calls.
C30_NonGreedyWithoutLookaheadIsGreedy ==
    (/\ pc \in {"done", "panicked", "diverged"}
     /\ NoLookahead
     /\ ~patterns[1].greedy) =>
        LET g == match_patterns(NewOutput, GreedyTwin, input)
        IN /\ g.res = result
           /\ g.stream = stream
           /\ SetMatchCalls(g.output) = SetMatchCalls(output)

\* C30 witness: a non-greedy repetition followed only by a Validator has
\* matched twice, with a capture in each repetition
C30_Witness ==
    /\ pc = "done"
    /\ IsOk(result)
    /\ NoLookahead
    /\ ~patterns[1].greedy
    /\ Len(patterns) = 2
    /\ Len(result.m.matches) >= 2
    /\ Len(SetMatchCalls(output)) >= 2

\* C30 witness: a non-greedy repetition that is the last node has matched
\* twice
C30_LastNodeWitness ==
    /\ pc = "done"
    /\ IsOk(result)
    /\ NoLookahead
    /\ ~patterns[1].greedy
    /\ Len(patterns) = 1
    /\ Len(result.m.matches) >= 2

====
